---- MODULE Spec2Model ----
(***************************************************************************)
(* Term resolution and the tabular triple builder of csv_to_rdf.py.        *)
(*                                                                         *)
(* A text is a sequence of characters (one-character strings).  A cell     *)
(* value of a data frame is a record [kind, text]: kind is the Python type *)
(* pandas hands to the loop (str, int, float) and text is str(value).      *)
(* An RDF term is a record [type, value, datatype].                        *)
(***************************************************************************)
EXTENDS Naturals, Sequences, FiniteSets, TLC

(***************************************************************************)
(* Bounds of the model.                                                    *)
(***************************************************************************)
\* longest text enumerated exhaustively over Alphabet
MaxLen == 3
\* longest list of sources handed to csv_to_rdf
MaxFiles == 2
\* most rows in one source
MaxRows == 2

(***************************************************************************)
(* Characters and the str methods the code uses.                           *)
(***************************************************************************)
UpperSeq == <<"A", "B", "C", "D", "E", "F", "G", "H", "I", "J", "K", "L", "M",
              "N", "O", "P", "Q", "R", "S", "T", "U", "V", "W", "X", "Y", "Z">>
LowerSeq == <<"a", "b", "c", "d", "e", "f", "g", "h", "i", "j", "k", "l", "m",
              "n", "o", "p", "q", "r", "s", "t", "u", "v", "w", "x", "y", "z">>
UpperChars == {UpperSeq[i] : i \in 1..26}
LowerChars == {LowerSeq[i] : i \in 1..26}
Digits == {"0", "1", "2", "3", "4", "5", "6", "7", "8", "9"}
\* the multiplication sign U+00D7
MultSign == "U+00D7"
\* characters str.strip() and float() treat as whitespace
Whitespace == {" ", "\t"}
\* characters matched by \w in a Python 3 str pattern
WordChars == UpperChars \cup LowerChars \cup Digits \cup {"_"}

\* c.isupper()
isupper(c) == c \in UpperChars
\* c.lower()
lowerchar(c) == IF c \in UpperChars
                THEN LowerSeq[CHOOSE i \in 1..26 : UpperSeq[i] = c]
                ELSE c
\* s.lower()
lower(s) == [i \in 1..Len(s) |-> lowerchar(s[i])]

\* s[from-1 : to] in Python slice terms, as a sequence
Slice(s, from, to) == [i \in 1..(IF to >= from THEN to - from + 1 ELSE 0) |-> s[from + i - 1]]

\* s.startswith(p)
startswith(s, p) == Len(p) <= Len(s) /\ Slice(s, 1, Len(p)) = p
\* p in s
contains(s, p) == \E i \in 1..(Len(s) + 1) :
                     i + Len(p) - 1 <= Len(s) /\ Slice(s, i, i + Len(p) - 1) = p
\* s.strip()
strip(s) ==
  LET keep == {i \in 1..Len(s) : s[i] \notin Whitespace}
  IN  IF keep = {} THEN <<>>
      ELSE LET lo == CHOOSE i \in keep : \A j \in keep : i <= j
               hi == CHOOSE i \in keep : \A j \in keep : i >= j
           IN  Slice(s, lo, hi)

\* re.sub(r'[...]', '', s): drop every character of s the class matches
RECURSIVE RemoveChars(_, _)
RemoveChars(s, class) ==
  IF s = <<>> THEN <<>>
  ELSE IF Head(s) \in class THEN RemoveChars(Tail(s), class)
       ELSE <<Head(s)>> \o RemoveChars(Tail(s), class)
\* re.sub(r'[^...]', '', s): keep only the characters of s in the class
RECURSIVE KeepChars(_, _)
KeepChars(s, class) ==
  IF s = <<>> THEN <<>>
  ELSE IF Head(s) \in class THEN <<Head(s)>> \o KeepChars(Tail(s), class)
       ELSE KeepChars(Tail(s), class)
\* s.replace(old, new) for single characters
replace(s, old, new) == [i \in 1..Len(s) |-> IF s[i] = old THEN new ELSE s[i]]

(***************************************************************************)
(* float(text): Python's grammar for a float given as a string.            *)
(***************************************************************************)
\* digit (["_"] digit)*
IsDigitPart(s) ==
  /\ Len(s) > 0
  /\ s[1] \in Digits /\ s[Len(s)] \in Digits
  /\ \A i \in 1..Len(s) : s[i] \in Digits \cup {"_"}
  /\ \A i \in 1..(Len(s) - 1) : ~(s[i] = "_" /\ s[i + 1] = "_")
\* digitpart ["." [digitpart]] | "." digitpart
IsPointFloat(s) ==
  \/ IsDigitPart(s)
  \/ \E i \in 1..Len(s) :
       /\ s[i] = "."
       /\ LET l == Slice(s, 1, i - 1)
              r == Slice(s, i + 1, Len(s))
          IN  \/ IsDigitPart(l) /\ (r = <<>> \/ IsDigitPart(r))
              \/ l = <<>> /\ IsDigitPart(r)
\* an optional sign
Unsigned(s) == IF s # <<>> /\ s[1] \in {"+", "-"} THEN Tail(s) ELSE s
\* pointfloat [("e" | "E") ["+" | "-"] digitpart]
IsFloatNumber(s) ==
  \/ IsPointFloat(s)
  \/ \E i \in 1..Len(s) :
       /\ s[i] \in {"e", "E"}
       /\ IsPointFloat(Slice(s, 1, i - 1))
       /\ IsDigitPart(Unsigned(Slice(s, i + 1, Len(s))))
\* float(text) does not raise
ParsesAsFloat(text) ==
  LET u == Unsigned(strip(text))
  IN  \/ IsFloatNumber(u)
      \/ lower(u) \in {<<"i", "n", "f">>, <<"n", "a", "n">>,
                       <<"i", "n", "f", "i", "n", "i", "t", "y">>}

(***************************************************************************)
(* Values and RDF terms.                                                   *)
(***************************************************************************)
Str(text) == [kind |-> "str", text |-> text]
Int(text) == [kind |-> "int", text |-> text]
Float(text) == [kind |-> "float", text |-> text]

XSD_integer == "xsd:integer"
XSD_float == "xsd:float"
NoDatatype == "none"
URIRef(s) == [type |-> "URIRef", value |-> s, datatype |-> NoDatatype]
Literal(s, dt) == [type |-> "Literal", value |-> s, datatype |-> dt]
\* an exception raised out of a call
Raised == [type |-> "Exception", value |-> <<>>, datatype |-> NoDatatype]

(***************************************************************************)
(* Namespaces.                                                             *)
(***************************************************************************)
EX == <<"h", "t", "t", "p", ":", "/", "/", "e", "x", "a", "m", "p", "l", "e",
        ".", "o", "r", "g", "/", "l", "o", "d", "l", "a", "m", "/">>
SCHEMA == <<"h", "t", "t", "p", ":", "/", "/", "s", "c", "h", "e", "m", "a",
            ".", "o", "r", "g", "/">>
EDM == <<"h", "t", "t", "p", ":", "/", "/", "w", "w", "w", ".", "e", "u", "r",
         "o", "p", "e", "a", "n", "a", ".", "e", "u", "/", "s", "c", "h", "e",
         "m", "a", "s", "/", "e", "d", "m", "/">>
CRM == <<"h", "t", "t", "p", ":", "/", "/", "w", "w", "w", ".", "c", "i", "d",
         "o", "c", "-", "c", "r", "m", ".", "o", "r", "g", "/", "c", "i", "d",
         "o", "c", "-", "c", "r", "m", "/">>
DC == <<"h", "t", "t", "p", ":", "/", "/", "p", "u", "r", "l", ".", "o", "r",
        "g", "/", "d", "c", "/", "e", "l", "e", "m", "e", "n", "t", "s", "/",
        "1", ".", "1", "/">>
RDF == <<"h", "t", "t", "p", ":", "/", "/", "w", "w", "w", ".", "w", "3", ".",
         "o", "r", "g", "/", "1", "9", "9", "9", "/", "0", "2", "/", "2", "2",
         "-", "r", "d", "f", "-", "s", "y", "n", "t", "a", "x", "-", "n", "s",
         "#">>
RDFS == <<"h", "t", "t", "p", ":", "/", "/", "w", "w", "w", ".", "w", "3", ".",
          "o", "r", "g", "/", "2", "0", "0", "0", "/", "0", "1", "/", "r", "d",
          "f", "-", "s", "c", "h", "e", "m", "a", "#">>
DCTERMS == <<"h", "t", "t", "p", ":", "/", "/", "p", "u", "r", "l", ".", "o",
             "r", "g", "/", "d", "c", "/", "t", "e", "r", "m", "s", "/">>
FOAF == <<"h", "t", "t", "p", ":", "/", "/", "x", "m", "l", "n", "s", ".", "c",
          "o", "m", "/", "f", "o", "a", "f", "/", "0", ".", "1", "/">>
OWL == <<"h", "t", "t", "p", ":", "/", "/", "w", "w", "w", ".", "w", "3", ".",
         "o", "r", "g", "/", "2", "0", "0", "2", "/", "0", "7", "/", "o", "w",
         "l", "#">>


\* The prefixes of namespace_map and their namespaces.  closed marks the
\* vocabularies imported from rdflib.namespace: they define a fixed set of
\* terms, and indexing one with a name outside that set raises.  The
\* namespaces built with Namespace(...) accept every name.
namespace_map ==
  ( <<"r", "d", "f">> :> [base |-> RDF, closed |-> TRUE] ) @@
  ( <<"r", "d", "f", "s">> :> [base |-> RDFS, closed |-> TRUE] ) @@
  ( <<"d", "c", "t", "e", "r", "m", "s">> :> [base |-> DCTERMS, closed |-> TRUE] ) @@
  ( <<"d", "c">> :> [base |-> DC, closed |-> FALSE] ) @@
  ( <<"f", "o", "a", "f">> :> [base |-> FOAF, closed |-> TRUE] ) @@
  ( <<"s", "c", "h", "e", "m", "a">> :> [base |-> SCHEMA, closed |-> FALSE] ) @@
  ( <<"e", "d", "m">> :> [base |-> EDM, closed |-> FALSE] ) @@
  ( <<"c", "r", "m">> :> [base |-> CRM, closed |-> FALSE] ) @@
  ( <<"o", "w", "l">> :> [base |-> OWL, closed |-> TRUE] ) @@
  ( <<"e", "x">> :> [base |-> EX, closed |-> FALSE] )

\* Terms the closed vocabularies are known to define (among the names the
\* model uses).
DefinedTerms ==
  { RDF \o <<"t", "y", "p", "e">>,
    RDFS \o <<"l", "a", "b", "e", "l">>,
    DCTERMS \o <<"c", "r", "e", "a", "t", "o", "r">>,
    DCTERMS \o <<"s", "p", "a", "t", "i", "a", "l">>,
    FOAF \o <<"n", "a", "m", "e">>,
    OWL \o <<"s", "a", "m", "e", "A", "s">> }

\* ns[local_name]: the outcomes of indexing a namespace.  A name a closed
\* vocabulary is not known to define is rejected or accepted, whichever the
\* installed vocabulary does.
namespace_getitem(ns, local_name) ==
  IF ns.closed /\ (ns.base \o local_name) \notin DefinedTerms
  THEN {Raised, URIRef(ns.base \o local_name)}
  ELSE {URIRef(ns.base \o local_name)}

(***************************************************************************)
(* Term resolution.                                                        *)
(***************************************************************************)
\* characters clean_uri_string keeps in its last substitution: [\w\-_.]
UriSafeChars == WordChars \cup {"-", "_", "."}

\* clean_uri_string without its last substitution
clean_uri_string_keeps_rest(text) ==
  LET t1 == RemoveChars(text, {"(", ")", ","})
  IN  replace(t1, " ", "_")

clean_uri_string(text) ==
  LET t1 == RemoveChars(text, {"(", ")", ","})
      t2 == replace(t1, " ", "_")
  IN  KeepChars(t2, UriSafeChars)

HttpScheme == <<"h", "t", "t", "p", ":", "/", "/">>
HttpsScheme == <<"h", "t", "t", "p", "s", ":", "/", "/">>

\* create_uri without the sanitization of the local name
create_uri_unsanitized(value) ==
  LET text_str == strip(value.text)
  IN  IF startswith(text_str, HttpScheme) \/ startswith(text_str, HttpsScheme)
      THEN URIRef(text_str)
      ELSE URIRef(EX \o text_str)

\* create_uri without the pass-through of URLs
create_uri_always_minted(value) ==
  URIRef(EX \o clean_uri_string(strip(value.text)))

create_uri(value) ==
  LET text_str == strip(value.text)
  IN  IF startswith(text_str, HttpScheme) \/ startswith(text_str, HttpsScheme)
      THEN URIRef(text_str)
      ELSE URIRef(EX \o clean_uri_string(text_str))

\* index of the first colon of s (0 when there is none)
FirstColon(s) ==
  IF \E i \in 1..Len(s) : s[i] = ":"
  THEN CHOOSE i \in 1..Len(s) : s[i] = ":" /\ \A j \in 1..(i - 1) : s[j] # ":"
  ELSE 0

\* parse_property keeping only the local name under an unknown prefix
parse_property_drops_prefix(property_string) ==
  LET property_str == strip(property_string.text)
      c == FirstColon(property_str)
  IN  IF c # 0
      THEN LET prefix == Slice(property_str, 1, c - 1)
               local_name == Slice(property_str, c + 1, Len(property_str))
               prefix_lower == lower(prefix)
           IN  IF prefix_lower \in DOMAIN namespace_map
               THEN namespace_getitem(namespace_map[prefix_lower], local_name)
               ELSE {URIRef(EX \o local_name)}
      ELSE {URIRef(EX \o property_str)}

\* the set of outcomes of parse_property: one reference, or an exception
\* when a closed vocabulary rejects the local name
parse_property(property_string) ==
  LET property_str == strip(property_string.text)
      c == FirstColon(property_str)
  IN  IF c # 0
      THEN LET prefix == Slice(property_str, 1, c - 1)
               local_name == Slice(property_str, c + 1, Len(property_str))
               prefix_lower == lower(prefix)
           IN  IF prefix_lower \in DOMAIN namespace_map
               THEN namespace_getitem(namespace_map[prefix_lower], local_name)
               ELSE {URIRef(EX \o replace(property_str, ":", "_"))}
      ELSE {URIRef(EX \o property_str)}

DateIndicators ==
  { <<"c", "e", "n", "t", "u", "r", "y">>, <<"d", "y", "n", "a", "s", "t", "y">>,
    <<"p", "e", "r", "i", "o", "d">>, <<"y", "e", "a", "r">>, <<"a", "d">>,
    <<"b", "c">>, <<"-">> }
MeasurementUnits ==
  { <<"c", "m">>, <<"m", "m">>, <<"i", "n", "c", "h">>,
    <<"m", "e", "t", "e", "r">>, <<"k", "g">>, <<MultSign>> }
DescriptiveWords ==
  { <<"m", "a", "d", "e", " ", "o", "f">>,
    <<"c", "o", "n", "s", "i", "s", "t", "s", " ", "o", "f">>,
    <<"l", "o", "c", "a", "t", "e", "d", " ", "a", "t">>,
    <<"d", "e", "p", "i", "c", "t", "s">>, <<"s", "h", "o", "w", "s">>,
    <<"a", "p", "p", "r", "o", "x", "i", "m", "a", "t", "e", "l", "y">>,
    <<"h", "e", "i", "g", "h", "t">>, <<"w", "i", "d", "t", "h">>,
    <<"p", "r", "i", "n", "t">>,
    <<"p", "h", "o", "t", "o", "g", "r", "a", "p", "h">> }

\* float(value) does not raise: a number converts, a str is parsed
float_ok(value) == value.kind \in {"int", "float"} \/ ParsesAsFloat(value.text)

\* is_literal_value without the date/time indicators
is_literal_value_no_dates(value) ==
  LET value_str == lower(value.text)
  IN  \/ \E unit \in MeasurementUnits : contains(value_str, unit)
      \/ float_ok(value)
      \/ \E word \in DescriptiveWords : contains(value_str, word)

is_literal_value(value) ==
  LET value_str == lower(value.text)
  IN  \/ \E indicator \in DateIndicators : contains(value_str, indicator)
      \/ \E unit \in MeasurementUnits : contains(value_str, unit)
      \/ float_ok(value)
      \/ \E word \in DescriptiveWords : contains(value_str, word)

\* should_be_uri without the proper-noun rule
should_be_uri_url_only(value) ==
  startswith(strip(value.text), <<"h", "t", "t", "p">>)

\* should_be_uri with the proper-noun rule not consulting is_literal_value
should_be_uri_any_capital(value) ==
  LET value_str == strip(value.text)
  IN  \/ startswith(value_str, <<"h", "t", "t", "p">>)
      \/ value_str # <<>> /\ isupper(value_str[1])

\* should_be_uri with the literal indicators checked before the URL prefix
should_be_uri_literal_first(value) ==
  LET value_str == strip(value.text)
  IN  /\ ~is_literal_value(value)
      /\ \/ startswith(value_str, <<"h", "t", "t", "p">>)
         \/ value_str # <<>> /\ isupper(value_str[1])

should_be_uri(value) ==
  LET value_str == strip(value.text)
  IN  \/ startswith(value_str, <<"h", "t", "t", "p">>)
      \/ value_str # <<>> /\ isupper(value_str[1]) /\ ~is_literal_value(value)

\* the object of a row: lines 213-221 of csv_to_rdf
object_term(obj_value) ==
  IF should_be_uri(obj_value)
  THEN create_uri(obj_value)
  ELSE IF obj_value.kind \in {"int", "float"}
       THEN Literal(obj_value.text,
                    IF obj_value.kind = "int" THEN XSD_integer ELSE XSD_float)
       ELSE Literal(obj_value.text, NoDatatype)

(***************************************************************************)
(* Inputs.                                                                 *)
(***************************************************************************)
\* characters of the exhaustively enumerated texts
Alphabet == {"A", "D", "a", "c", "d", "4", ".", "-", " ", "\t", "(", ":", "_"}
ShortTexts == UNION {[1..k -> Alphabet] : k \in 0..MaxLen}

Throne == <<"T", "h", "r", "o", "n", "e">>
QingDynastyWorkshop == <<"Q", "i", "n", "g", "_", "D", "y", "n", "a", "s", "t",
                         "y", "_", "W", "o", "r", "k", "s", "h", "o", "p">>
Cm85 == <<"8", "5", " ", "c", "m">>
MountLongevity == <<"M", "o", "u", "n", "t", "_", "L", "o", "n", "g", "e", "v",
                    "i", "t", "y">>
Century18 == <<"1", "8", "t", "h", " ", "c", "e", "n", "t", "u", "r", "y">>
DctermsCreator == <<"d", "c", "t", "e", "r", "m", "s", ":", "c", "r", "e", "a",
                    "t", "o", "r">>
DctermsSpatial == <<"d", "c", "t", "e", "r", "m", "s", ":", "s", "p", "a", "t",
                    "i", "a", "l">>
ExHeight == <<"e", "x", ":", "h", "e", "i", "g", "h", "t">>
ExCount == <<"e", "x", ":", "c", "o", "u", "n", "t">>
ExWeight == <<"e", "x", ":", "w", "e", "i", "g", "h", "t">>
RdfFoo == <<"r", "d", "f", ":", "f", "o", "o">>
\* a text that sanitizes to the empty local name
Parens == <<"(", ")">>
\* an external URL that is not URI-safe
UrlWithSpace == <<"h", "t", "t", "p", ":", "/", "/", "a", ".", "b", "/", "c", " ", "d">>
UnknownprefixFoo == <<"u", "n", "k", "n", "o", "w", "n", "p", "r", "e", "f",
                      "i", "x", ":", "f", "o", "o">>

ExampleTexts ==
  { Throne, QingDynastyWorkshop, Cm85, MountLongevity, Century18,
    DctermsCreator, DctermsSpatial, ExHeight, RdfFoo, UnknownprefixFoo,
    Parens, UrlWithSpace,
    <<"4", "2">>, <<"3", ".", "1", "4">>, <<" ", "4", "2", " ">>,
    <<"1", "e", "5">>, <<"I", "n", "f", "i", "n", "i", "t", "y">>,
    <<"N", "a", "N">>,
    <<"D", "C", "T", "E", "R", "M", "S", ":", "c", "r", "e", "a", "t", "o", "r">>,
    <<"d", "c", "t", "e", "r", "m", "s", ":", "c", "r", "e", "a", "t", "o", "r",
      ":", "x">>,
    <<"r", "d", "f", ":", "t", "y", "p", "e">>,
    <<"s", "c", "h", "e", "m", "a", ":", "a", ":", "b">>,
    <<"E", "x", ":", "a", " ", "b">>,
    <<"h", "t", "t", "p", ":", "/", "/", "a", ".", "b", "/", "c", "-", "d">>,
    <<"h", "t", "t", "p", "s", ":", "/", "/", "a", ".", "b", "/", "a", "d">>,
    <<"h", "t", "t", "p", ":", "/", "/", "a", ".", "b", "/", "c", " ">>,
    <<" ", "h", "t", "t", "p", ":", "/", "/", "a", ".", "b">>,
    <<"h", "t", "t", "p", "f", "o", "o">>,
    <<"h", "t", "t", "p", "-", "a", "d">>,
    <<"H", "T", "T", "P", ":", "/", "/", "A", ".", "B">> }

\* the values a cell can hold: any text as a str, and the numbers of a
\* numeric column as int or float
Values ==
  {Str(t) : t \in ShortTexts \cup ExampleTexts}
    \cup {Int(<<"4", "2">>), Int(<<"-", "7">>),
          Float(<<"3", ".", "1", "4">>), Float(<<"n", "a", "n">>)}

Row(s, p, o) == [Subject |-> s, Property |-> p, Object |-> o]
\* rows of a source whose Object column holds text
TextRows ==
  { Row(Str(Throne), Str(DctermsCreator), Str(QingDynastyWorkshop)),
    Row(Str(Throne), Str(ExHeight), Str(Cm85)),
    Row(Str(Parens), Str(RdfFoo), Str(UrlWithSpace)) }
\* rows of a source whose Object column pandas read as integers
IntRows == { Row(Str(Throne), Str(ExCount), Int(<<"4", "2">>)) }
\* rows of a source whose Object column pandas read as floats
FloatRows == { Row(Str(Throne), Str(ExWeight), Float(<<"3", ".", "1", "4">>)) }

SeqsUpTo(S, n) == UNION {[1..k -> S] : k \in 0..n}
RequiredColumns == {"Subject", "Property", "Object"}
\* the column sets of the sources: all three, or one of them missing
ColumnSets == {RequiredColumns} \cup {RequiredColumns \ {c} : c \in RequiredColumns}
\* the data frames read_csv can return
Frames ==
  { [columns |-> cols, rows |-> [i \in 1..Len(rs) |-> [c \in cols |-> rs[i][c]]]] :
      cols \in ColumnSets,
      rs \in SeqsUpTo(TextRows, MaxRows) \cup SeqsUpTo(IntRows, MaxRows)
               \cup SeqsUpTo(FloatRows, MaxRows) }
EmptyFrame == [columns |-> RequiredColumns, rows |-> <<>>]

(***************************************************************************)
(* State.                                                                  *)
(***************************************************************************)
VARIABLES
  arg,            \* term resolution: the value a function is called with
  call,           \* term resolution: the function called ("none" before)
  ret,            \* term resolution: what the call returned
  nfiles,         \* len(csv_files)
  fidx,           \* position of the loop over csv_files
  df,             \* the frame of the source being processed (empty between sources)
  ridx,           \* position of the loop over df.iterrows()
  g,              \* the graph: a set of triples
  added,          \* how many times g.add has been called
  file_triples,   \* triples counted for the current source
  total_triples,  \* the running total
  status,         \* the state each source has reached
  pc,             \* position in csv_to_rdf / __main__
  turtle,         \* outcome of the Turtle serialization
  rdfxml,         \* outcome of the RDF/XML export
  tei_pc,         \* document builder: position in tei_to_rdf
  tei_g,          \* document builder: its graph g, a set of triples
  tei_n           \* document builder: entries of the document processed so far

vars == <<arg, call, ret, nfiles, fidx, df, ridx, g, added, file_triples,
          total_triples, status, pc, turtle, rdfxml, tei_pc, tei_g, tei_n>>
termVars == <<arg, call, ret>>
buildVars == <<nfiles, fidx, df, ridx, g, added, file_triples, total_triples, status,
               pc, turtle, rdfxml>>
teiVars == <<tei_pc, tei_g, tei_n>>

Triple(s, p, o) == [s |-> s, p |-> p, o |-> o]

(***************************************************************************)
(* The tabular builder: csv_to_rdf and the __main__ block.                 *)
(***************************************************************************)
BuildInit ==
  /\ nfiles \in 1..MaxFiles
  /\ fidx = 1
  /\ df = EmptyFrame
  /\ ridx = 1
  /\ g = {}
  /\ added = 0
  /\ file_triples = 0
  /\ total_triples = 0
  /\ status = [i \in 1..nfiles |-> "not_started"]
  /\ pc = "for_file"
  /\ turtle = "none"
  /\ rdfxml = "none"

\* the source-level handler not moving on to the next source
ReadFails_retries ==
  /\ pc = "for_file" /\ fidx <= nfiles
  /\ status' = [status EXCEPT ![fidx] = "unreadable"]
  /\ fidx' = fidx
  /\ UNCHANGED <<termVars, teiVars>>
  /\ UNCHANGED <<added, nfiles, df, ridx, g, file_triples, total_triples, pc, turtle, rdfxml>>

\* pd.read_csv raises: the source-level handler reports and continues
ReadFails ==
  /\ pc = "for_file" /\ fidx <= nfiles
  /\ status' = [status EXCEPT ![fidx] = "unreadable"]
  /\ fidx' = fidx + 1
  /\ UNCHANGED <<termVars, teiVars>>
  /\ UNCHANGED <<added, nfiles, df, ridx, g, file_triples, total_triples, pc, turtle, rdfxml>>

\* pd.read_csv returns a frame
ReadCsv ==
  /\ pc = "for_file" /\ fidx <= nfiles
  /\ \E frame \in Frames : df' = frame
  /\ status' = [status EXCEPT ![fidx] = "loaded"]
  /\ pc' = "verify"
  /\ UNCHANGED <<termVars, teiVars>>
  /\ UNCHANGED <<added, nfiles, fidx, ridx, g, file_triples, total_triples, turtle, rdfxml>>

\* the check of the required columns with any in place of all
VerifyColumns_any ==
  /\ pc = "verify"
  /\ IF ~(\E col \in RequiredColumns : col \in df.columns)
     THEN /\ status' = [status EXCEPT ![fidx] = "columns_invalid"]
          /\ fidx' = fidx + 1
          /\ pc' = "for_file"
          /\ df' = EmptyFrame
          /\ UNCHANGED <<ridx, file_triples>>
     ELSE /\ status' = [status EXCEPT ![fidx] = "columns_valid"]
          /\ file_triples' = 0
          /\ ridx' = 1
          /\ pc' = "rows"
          /\ UNCHANGED <<fidx, df>>
  /\ UNCHANGED <<termVars, teiVars>>
  /\ UNCHANGED <<added, nfiles, g, total_triples, turtle, rdfxml>>

\* the check of the required columns
VerifyColumns ==
  /\ pc = "verify"
  /\ IF ~(\A col \in RequiredColumns : col \in df.columns)
     THEN /\ status' = [status EXCEPT ![fidx] = "columns_invalid"]
          /\ fidx' = fidx + 1
          /\ pc' = "for_file"
          /\ df' = EmptyFrame
          /\ UNCHANGED <<ridx, file_triples>>
     ELSE /\ status' = [status EXCEPT ![fidx] = "columns_valid"]
          /\ file_triples' = 0
          /\ ridx' = 1
          /\ pc' = "rows"
          /\ UNCHANGED <<fidx, df>>
  /\ UNCHANGED <<termVars, teiVars>>
  /\ UNCHANGED <<added, nfiles, g, total_triples, turtle, rdfxml>>

\* the outcomes of converting one row: a triple, or Raised
row_outcomes(row) ==
  { IF predicate = Raised THEN Raised
    ELSE Triple(create_uri(row.Subject), predicate, object_term(row.Object)) :
      predicate \in parse_property(row.Property) }

\* the row loop with a failing row ending the loop (break for continue)
ProcessRow_breaks ==
  /\ pc = "rows" /\ ridx <= Len(df.rows)
  /\ \E outcome \in row_outcomes(df.rows[ridx]) :
       IF outcome = Raised
       THEN /\ UNCHANGED <<g, file_triples, added>>
            /\ ridx' = Len(df.rows) + 1
       ELSE /\ g' = g \cup {outcome}
            /\ file_triples' = file_triples + 1
            /\ added' = added + 1
            /\ ridx' = ridx + 1
  /\ UNCHANGED <<termVars, teiVars>>
  /\ UNCHANGED <<nfiles, fidx, df, total_triples, status, pc, turtle, rdfxml>>

\* one iteration of the loop over the rows
ProcessRow ==
  /\ pc = "rows" /\ ridx <= Len(df.rows)
  /\ \E outcome \in row_outcomes(df.rows[ridx]) :
       IF outcome = Raised
       THEN UNCHANGED <<g, file_triples, added>>
       ELSE /\ g' = g \cup {outcome}
            /\ file_triples' = file_triples + 1
            /\ added' = added + 1
  /\ ridx' = ridx + 1
  /\ UNCHANGED <<termVars, teiVars>>
  /\ UNCHANGED <<nfiles, fidx, df, total_triples, status, pc, turtle, rdfxml>>

\* the end of a source with the total overwritten (= for +=)
FinishSource_overwrites ==
  /\ pc = "rows" /\ ridx > Len(df.rows)
  /\ total_triples' = file_triples
  /\ status' = [status EXCEPT ![fidx] = "rows_processed"]
  /\ fidx' = fidx + 1
  /\ pc' = "for_file"
  /\ df' = EmptyFrame
  /\ UNCHANGED <<termVars, teiVars>>
  /\ UNCHANGED <<added, nfiles, ridx, g, file_triples, turtle, rdfxml>>

\* after the last row: the source's count joins the total
FinishSource ==
  /\ pc = "rows" /\ ridx > Len(df.rows)
  /\ total_triples' = total_triples + file_triples
  /\ status' = [status EXCEPT ![fidx] = "rows_processed"]
  /\ fidx' = fidx + 1
  /\ pc' = "for_file"
  /\ df' = EmptyFrame
  /\ UNCHANGED <<termVars, teiVars>>
  /\ UNCHANGED <<added, nfiles, ridx, g, file_triples, turtle, rdfxml>>

\* the serialization refusing an empty graph
SerializeTurtle_needs_triples ==
  /\ pc = "for_file" /\ fidx > nfiles /\ g # {}
  /\ \/ turtle' = "saved" /\ pc' = "export_rdf_xml"
     \/ turtle' = "failed" /\ pc' = "aborted"
  /\ UNCHANGED <<termVars, teiVars>>
  /\ UNCHANGED <<added, nfiles, fidx, df, ridx, g, file_triples, total_triples, status, rdfxml>>

\* after the last source: the total is printed and the graph serialized to
\* Turtle; a failure to write is not caught and ends the run
SerializeTurtle ==
  /\ pc = "for_file" /\ fidx > nfiles
  /\ \/ turtle' = "saved" /\ pc' = "export_rdf_xml"
     \/ turtle' = "failed" /\ pc' = "aborted"
  /\ UNCHANGED <<termVars, teiVars>>
  /\ UNCHANGED <<added, nfiles, fidx, df, ridx, g, file_triples, total_triples, status, rdfxml>>

\* export_rdf_xml: a failure to write is caught and reported
ExportRdfXml ==
  /\ pc = "export_rdf_xml"
  /\ rdfxml' \in {"saved", "failed"}
  /\ pc' = "done"
  /\ UNCHANGED <<termVars, teiVars>>
  /\ UNCHANGED <<added, nfiles, fidx, df, ridx, g, file_triples, total_triples, status, turtle>>

(***************************************************************************)
(* Term resolution called on one value.                                    *)
(***************************************************************************)
NoTerm == [type |-> "none", value |-> <<>>, datatype |-> NoDatatype]

TermInit ==
  /\ arg \in Values
  /\ call = "none"
  /\ ret = NoTerm

CallCreateUri ==
  /\ call = "none"
  /\ call' = "create_uri"
  /\ ret' = create_uri(arg)
  /\ UNCHANGED <<arg, buildVars, teiVars>>

CallParseProperty ==
  /\ call = "none"
  /\ call' = "parse_property"
  /\ ret' \in parse_property(arg)
  /\ UNCHANGED <<arg, buildVars, teiVars>>

CallObjectTerm ==
  /\ call = "none"
  /\ call' = "object_term"
  /\ ret' = object_term(arg)
  /\ UNCHANGED <<arg, buildVars, teiVars>>

(***************************************************************************)
(* Specifications.                                                         *)
(***************************************************************************)
\* the builder run on a list of sources
\* the document builder not running
TeiIdle == tei_pc = "idle" /\ tei_g = {} /\ tei_n = 0
\* the tabular builder not running
BuildIdle ==
  /\ nfiles = 0 /\ fidx = 1 /\ df = EmptyFrame /\ ridx = 1 /\ g = {} /\ added = 0
  /\ file_triples = 0 /\ total_triples = 0 /\ status = <<>>
  /\ pc = "idle" /\ turtle = "none" /\ rdfxml = "none"
\* no term resolution call
TermIdle == arg = Str(<<>>) /\ call = "none" /\ ret = NoTerm

Init ==
  /\ BuildInit
  /\ TermIdle
  /\ TeiIdle
Next ==
  \/ ReadFails
  \/ ReadCsv
  \/ VerifyColumns
  \/ ProcessRow
  \/ FinishSource
  \/ SerializeTurtle
  \/ ExportRdfXml
Spec == Init /\ [][Next]_vars

\* term resolution on every value
InitTerm ==
  /\ TermInit
  /\ BuildIdle
  /\ TeiIdle
NextTerm ==
  \/ CallCreateUri
  \/ CallParseProperty
  \/ CallObjectTerm
SpecTerm == InitTerm /\ [][NextTerm]_vars

(***************************************************************************)
(* The document builder: tei_to_rdf.                                       *)
(***************************************************************************)
\* most entries (persons, places, organizations, punishments) of a document
MaxEntries == 2

\* the base of the document builder's EX namespace
base_uri == <<"h", "t", "t", "p", ":", "/", "/", "e", "x", "a", "m", "p", "l", "e",
              ".", "o", "r", "g", "/", "b", "o", "x", "e", "r", "_",
              "p", "r", "o", "t", "o", "c", "o", "l", "/">>
\* ns.name and ns[name]: the term of a namespace, its name kept as one token
\* or, for an identifier read from the document, as its characters
term(ns, name) == URIRef(ns \o <<name>>)
XSD_date == "xsd:date"
XSD_gYear == "xsd:gYear"
LangEn == "@en"
doc_uri == term(base_uri, "ImperialEdict_1901_02_13")
rdf_type == term(RDF, "type")

\* str.split(): the maximal runs of characters that are not whitespace
RECURSIVE split(_)
split(s) ==
  IF s = <<>> THEN <<>>
  ELSE IF Head(s) \in Whitespace THEN split(Tail(s))
  ELSE LET stops == {i \in 1..Len(s) : s[i] \in Whitespace}
           n == IF stops = {} THEN Len(s) + 1
                ELSE CHOOSE i \in stops : \A j \in stops : i <= j
       IN  <<Slice(s, 1, n - 1)>> \o split(Slice(s, n, Len(s)))

\* the texts of the document
TitleText == <<"E", "d", "i", "c", "t">>
NameText == <<"A", "a">>
NoteText == <<"a", " ", "d">>
Boxers == <<"b", "o", "x", "e", "r", "s">>
PrinceTuan == <<"P", "r", "i", "n", "c", "e", "T", "u", "a", "n">>
Ids == {Boxers, PrinceTuan}
\* what xpath(...) returns for an optional field: no node or one text node
Nodes(text) == {<<>>, <<text>>}
\* the geo texts: two numbers, a number and a word, a word and a number, one
\* number, three numbers, two numbers separated by a comma
GeoTexts ==
  { <<"3", "9", ".", "9", " ", "1", "1", "6", ".", "4">>,
    <<"3", "9", ".", "9", " ", "N">>,
    <<"N", " ", "1", "1", "6", ".", "4">>,
    <<"3", "9", ".", "9">>,
    <<"3", "9", " ", "1", "1", "6", " ", "4">>,
    <<"3", "9", ".", "9", ",", "1", "1", "6", ".", "4">> }
HeaderFields == {"title", "author", "date", "pubPlace", "sourceDesc"}
\* the headers: the optional fields present and the LCSH keywords
Headers ==
  { [fields |-> {}, keywords |-> <<>>],
    [fields |-> {"title", "pubPlace"}, keywords |-> <<>>],
    [fields |-> HeaderFields, keywords |-> <<NameText>>] }
Persons == [id : Ids, persName : Nodes(NameText), note : Nodes(NoteText)]
Places ==
  [id : {Boxers}, placeName : {<<>>}, geo : {<<>>}, note : {<<>>}]
    \cup [id : {PrinceTuan}, placeName : Nodes(NameText),
          geo : {<<>>} \cup {<<t>> : t \in GeoTexts}, note : Nodes(NoteText)]
Orgs == [id : Ids, orgName : Nodes(NameText), note : Nodes(NoteText)]
\* punishment n with the persName refs in it
Punishments ==
  [n : {"1"}, refs : {<<>>, <<<<"#">> \o Boxers>>, <<<<"#">> \o PrinceTuan>>}]

\* lines 43-100: the document's types and its header
MetadataTriples(h) ==
  { Triple(doc_uri, rdf_type, term(SCHEMA, "HistoricalDocument")),
    Triple(doc_uri, rdf_type, term(FOAF, "Document")),
    Triple(doc_uri, rdf_type, term(CRM, "E31_Document")),
    Triple(doc_uri, term(DC, "language"), Literal(<<"e", "n">>, NoDatatype)),
    Triple(doc_uri, term(DCTERMS, "language"), Literal(<<"e", "n", "g">>, NoDatatype)) }
  \cup (IF "title" \in h.fields
        THEN { Triple(doc_uri, term(DC, "title"), Literal(TitleText, LangEn)),
               Triple(doc_uri, term(DCTERMS, "title"), Literal(TitleText, LangEn)) }
        ELSE {})
  \cup (IF "author" \in h.fields
        THEN LET author_uri == term(base_uri, "QingImperialCourt")
             IN  { Triple(author_uri, rdf_type, term(FOAF, "Organization")),
                   Triple(author_uri, term(FOAF, "name"), Literal(NameText, LangEn)),
                   Triple(doc_uri, term(DC, "creator"), author_uri),
                   Triple(doc_uri, term(DCTERMS, "creator"), author_uri) }
        ELSE {})
  \cup (IF "date" \in h.fields
        THEN LET date_str == <<"1", "9", "0", "1">>
             IN  { Triple(doc_uri, term(DC, "date"), Literal(date_str, XSD_date)),
                   Triple(doc_uri, term(DCTERMS, "created"), Literal(date_str, XSD_date)),
                   Triple(doc_uri, term(SCHEMA, "dateCreated"), Literal(date_str, XSD_date)) }
        ELSE {})
  \cup (IF "pubPlace" \in h.fields
        THEN LET place_uri == term(base_uri, "Beijing")
             IN  { Triple(place_uri, rdf_type, term(SCHEMA, "Place")),
                   Triple(place_uri, term(FOAF, "name"), Literal(NameText, LangEn)),
                   Triple(doc_uri, term(SCHEMA, "locationCreated"), place_uri) }
        ELSE {})
  \cup (IF "sourceDesc" \in h.fields
        THEN { Triple(doc_uri, term(DC, "description"), Literal(NoteText, LangEn)),
               Triple(doc_uri, term(DCTERMS, "description"), Literal(NoteText, LangEn)) }
        ELSE {})
  \cup UNION { { Triple(doc_uri, term(DC, "subject"), Literal(h.keywords[i], LangEn)),
                 Triple(doc_uri, term(DCTERMS, "subject"), Literal(h.keywords[i], LangEn)) } :
               i \in 1..Len(h.keywords) }

\* the name block of an entry: nodes[0] raises when there is no node
NameTriples(uri, nodes) ==
  IF nodes = <<>> THEN {}
  ELSE { Triple(uri, term(FOAF, "name"), Literal(nodes[1], LangEn)),
         Triple(uri, term(RDFS, "label"), Literal(nodes[1], LangEn)),
         Triple(uri, term(SCHEMA, "name"), Literal(nodes[1], LangEn)) }
\* the note block of an entry
NoteTriples(uri, nodes) ==
  IF nodes = <<>> THEN {}
  ELSE { Triple(uri, term(RDFS, "comment"), Literal(nodes[1], LangEn)),
         Triple(uri, term(SCHEMA, "description"), Literal(nodes[1], LangEn)) }
\* the links from the document to an entry
LinkTriples(uri) ==
  { Triple(doc_uri, term(SCHEMA, "mentions"), uri),
    Triple(doc_uri, term(CRM, "P67_refers_to"), uri) }
\* lines 154-160: the statements run one after the other until one raises;
\* the triples added before that stay in the graph
GeoTriples(place_uri, nodes) ==
  IF nodes = <<>> THEN {}
  ELSE LET parts == split(nodes[1])
       IN  IF Len(parts) # 2 THEN {}
           ELSE IF ~ParsesAsFloat(parts[1]) THEN {}
           ELSE { Triple(place_uri, term(SCHEMA, "latitude"), Literal(parts[1], XSD_float)) }
                \cup (IF ~ParsesAsFloat(parts[2]) THEN {}
                      ELSE { Triple(place_uri, term(SCHEMA, "longitude"),
                                    Literal(parts[2], XSD_float)) })

PersonTriples(person) ==
  LET person_uri == URIRef(base_uri \o person.id)
  IN  { Triple(person_uri, rdf_type, term(FOAF, "Person")),
        Triple(person_uri, rdf_type, term(SCHEMA, "Person")),
        Triple(person_uri, rdf_type, term(CRM, "E21_Person")) }
      \cup NameTriples(person_uri, person.persName)
      \cup NoteTriples(person_uri, person.note)
      \cup LinkTriples(person_uri)
PlaceTriples(place) ==
  LET place_uri == URIRef(base_uri \o place.id)
  IN  { Triple(place_uri, rdf_type, term(SCHEMA, "Place")),
        Triple(place_uri, rdf_type, term(CRM, "E53_Place")) }
      \cup NameTriples(place_uri, place.placeName)
      \cup GeoTriples(place_uri, place.geo)
      \cup NoteTriples(place_uri, place.note)
      \cup LinkTriples(place_uri)
OrgTriples(org) ==
  LET org_uri == URIRef(base_uri \o org.id)
  IN  { Triple(org_uri, rdf_type, term(FOAF, "Organization")),
        Triple(org_uri, rdf_type, term(SCHEMA, "Organization")),
        Triple(org_uri, rdf_type, term(CRM, "E74_Group")) }
      \cup NameTriples(org_uri, org.orgName)
      \cup NoteTriples(org_uri, org.note)
      \cup LinkTriples(org_uri)
PunishmentTriples(punishment) ==
  LET event_uri == term(base_uri, "Punishment_" \o punishment.n)
  IN  { Triple(event_uri, rdf_type, term(SCHEMA, "Event")),
        Triple(event_uri, rdf_type, term(CRM, "E5_Event")),
        Triple(event_uri, term(RDFS, "label"), Literal(<<"Punishment " \o punishment.n>>, LangEn)),
        Triple(event_uri, term(SCHEMA, "description"), Literal(NoteText, LangEn)),
        Triple(doc_uri, term(SCHEMA, "about"), event_uri),
        Triple(event_uri, term(SCHEMA, "isPartOf"), doc_uri) }
      \cup UNION { LET person_uri == URIRef(base_uri \o RemoveChars(punishment.refs[i], {"#"}))
                   IN  { Triple(event_uri, term(SCHEMA, "actor"), person_uri),
                         Triple(event_uri, term(CRM, "P11_had_participant"), person_uri) } :
                   i \in 1..Len(punishment.refs) }

boxer_event_uri == term(base_uri, "BoxerRebellion")
boxers_uri == URIRef(base_uri \o Boxers)
protocol_uri == term(base_uri, "BoxerProtocol")
OrganizerTriple == Triple(boxer_event_uri, term(SCHEMA, "organizer"), boxers_uri)
\* lines 239-245 and 253-258
FixedRelationTriples ==
  { Triple(boxer_event_uri, rdf_type, term(SCHEMA, "Event")),
    Triple(boxer_event_uri, rdf_type, term(CRM, "E5_Event")),
    Triple(boxer_event_uri, term(RDFS, "label"),
           Literal(<<"Boxer Rebellion">>, LangEn)),
    Triple(boxer_event_uri, term(SCHEMA, "startDate"), Literal(<<"1", "8", "9", "9">>, XSD_gYear)),
    Triple(boxer_event_uri, term(SCHEMA, "endDate"), Literal(<<"1", "9", "0", "1">>, XSD_gYear)),
    Triple(doc_uri, term(SCHEMA, "about"), boxer_event_uri),
    Triple(protocol_uri, rdf_type, term(SCHEMA, "HistoricalDocument")),
    Triple(protocol_uri, term(RDFS, "label"), Literal(<<"Boxer Protocol">>, LangEn)),
    Triple(protocol_uri, term(SCHEMA, "dateCreated"), Literal(<<"1901-09-07">>, XSD_date)),
    Triple(doc_uri, term(DCTERMS, "relation"), protocol_uri),
    Triple(doc_uri, term(SCHEMA, "relatedLink"), protocol_uri) }
\* (boxers_uri, None, None) in g
BoxersInGraph(graph) == \E t \in graph : t.s = boxers_uri

TeiInit == tei_pc = "parse" /\ tei_g = {} /\ tei_n = 0

\* lines 39-100: the parse, which may raise, then the types and the header
TeiMetadata ==
  /\ tei_pc = "parse"
  /\ \/ /\ tei_pc' = "aborted"
        /\ UNCHANGED tei_g
     \/ /\ \E h \in Headers : tei_g' = tei_g \cup MetadataTriples(h)
        /\ tei_pc' = "persons"
  /\ UNCHANGED <<tei_n, termVars, buildVars>>

\* lines 104-132: one iteration of the loop over the persons
TeiPerson ==
  /\ tei_pc = "persons" /\ tei_n < MaxEntries
  /\ \E person \in Persons : tei_g' = tei_g \cup PersonTriples(person)
  /\ tei_n' = tei_n + 1
  /\ UNCHANGED <<tei_pc, termVars, buildVars>>

\* lines 136-172: one iteration of the loop over the places
TeiPlace ==
  /\ tei_pc = "places" /\ tei_n < MaxEntries
  /\ \E place \in Places : tei_g' = tei_g \cup PlaceTriples(place)
  /\ tei_n' = tei_n + 1
  /\ UNCHANGED <<tei_pc, termVars, buildVars>>

\* lines 176-204: one iteration of the loop over the organizations
TeiOrg ==
  /\ tei_pc = "orgs" /\ tei_n < MaxEntries
  /\ \E org \in Orgs : tei_g' = tei_g \cup OrgTriples(org)
  /\ tei_n' = tei_n + 1
  /\ UNCHANGED <<tei_pc, termVars, buildVars>>

\* lines 208-235: one iteration of the loop over the punishments
TeiPunishment ==
  /\ tei_pc = "punishments" /\ tei_n < MaxEntries
  /\ \E punishment \in Punishments : tei_g' = tei_g \cup PunishmentTriples(punishment)
  /\ tei_n' = tei_n + 1
  /\ UNCHANGED <<tei_pc, termVars, buildVars>>

\* the end of one of the four loops: on to the next one
TeiNextList ==
  /\ tei_pc \in {"persons", "places", "orgs", "punishments"}
  /\ tei_pc' = CASE tei_pc = "persons" -> "places"
                 [] tei_pc = "places" -> "orgs"
                 [] tei_pc = "orgs" -> "punishments"
                 [] tei_pc = "punishments" -> "relations"
  /\ UNCHANGED <<tei_g, tei_n, termVars, buildVars>>

\* the relations with the organizer always added
TeiRelations_unconditional ==
  /\ tei_pc = "relations"
  /\ tei_g' = tei_g \cup FixedRelationTriples \cup {OrganizerTriple}
  /\ tei_pc' = "serialize"
  /\ UNCHANGED <<tei_n, termVars, buildVars>>

\* lines 239-258: the relations; the organizer is added when the graph
\* already holds a triple about ex:boxers
TeiRelations ==
  /\ tei_pc = "relations"
  /\ tei_g' = tei_g \cup FixedRelationTriples
                \cup (IF BoxersInGraph(tei_g) THEN {OrganizerTriple} ELSE {})
  /\ tei_pc' = "serialize"
  /\ UNCHANGED <<tei_n, termVars, buildVars>>

\* lines 261-270: the two serializations, neither in a try
TeiSerialize ==
  /\ tei_pc = "serialize"
  /\ tei_pc' \in {"done", "aborted"}
  /\ UNCHANGED <<tei_g, tei_n, termVars, buildVars>>

\* the document builder on every document
InitTei ==
  /\ TeiInit
  /\ TermIdle
  /\ BuildIdle
NextTei ==
  \/ TeiMetadata
  \/ TeiPerson
  \/ TeiPlace
  \/ TeiOrg
  \/ TeiPunishment
  \/ TeiNextList
  \/ TeiRelations
  \/ TeiSerialize
SpecTei == InitTei /\ [][NextTei]_vars

(***************************************************************************)
(* Properties.                                                             *)
(***************************************************************************)
\* the literal-indicator substrings of the classification policy
Indicators == DateIndicators \cup MeasurementUnits \cup DescriptiveWords
HasIndicator(text) == \E ind \in Indicators : contains(lower(text), ind)
StartsWithUrlScheme(text) == startswith(text, HttpScheme) \/ startswith(text, HttpsScheme)

\* the source of the end-to-end scenario
ThroneFrame ==
  [columns |-> RequiredColumns,
   rows |-> << Row(Str(Throne), Str(DctermsCreator), Str(QingDynastyWorkshop)),
               Row(Str(Throne), Str(ExHeight), Str(Cm85)) >>]
ThroneDone == pc = "rows" /\ fidx = 1 /\ df = ThroneFrame /\ ridx > Len(df.rows)
CreatorPredicate == URIRef(DCTERMS \o <<"c", "r", "e", "a", "t", "o", "r">>)
HeightPredicate == URIRef(EX \o <<"h", "e", "i", "g", "h", "t">>)

\* C1 as stated: once the rows ("Throne","dcterms:creator",
\* "Qing_Dynasty_Workshop") and ("Throne","ex:height","85 cm") of a single
\* source are processed, the graph holds exactly two triples, the first with
\* a reference object minted from Qing_Dynasty_Workshop and the second with
\* the plain string literal "85 cm".
C1_AsStated ==
  ThroneDone =>
    g = { Triple(URIRef(EX \o Throne), CreatorPredicate,
                 URIRef(EX \o QingDynastyWorkshop)),
          Triple(URIRef(EX \o Throne), HeightPredicate,
                 Literal(Cm85, NoDatatype)) }

\* C1 amended: the two rows produce exactly two triples and both objects are
\* plain string literals; "Qing_Dynasty_Workshop" contains the indicator
\* "dynasty", so it is not minted as a reference.
C1_ThroneScenario ==
  ThroneDone =>
    /\ g = { Triple(URIRef(EX \o Throne), CreatorPredicate,
                    Literal(QingDynastyWorkshop, NoDatatype)),
             Triple(URIRef(EX \o Throne), HeightPredicate,
                    Literal(Cm85, NoDatatype)) }
    /\ file_triples = 2
C1_Witness == ThroneDone /\ Cardinality(g) = 2

\* C2: an Object text that starts with an uppercase letter, contains no
\* literal indicator when lower-cased and does not parse as a number is
\* classified as a reference; "Mount_Longevity" gives a reference and
\* "18th century" a plain string literal.
C2_ProperNounIsReference ==
  call = "object_term" =>
    /\ ( /\ arg.text # <<>> /\ isupper(arg.text[1])
         /\ ~HasIndicator(arg.text)
         /\ ~float_ok(arg) )
       => ret.type = "URIRef"
    /\ arg = Str(MountLongevity) => ret = URIRef(EX \o MountLongevity)
    /\ arg = Str(Century18) => ret = Literal(Century18, NoDatatype)
C2_Witness ==
  call = "object_term" /\ arg = Str(MountLongevity) /\ ret.type = "URIRef"

\* C3 as stated: an Object value whose text parses as a number is emitted as
\* a literal with the numeric datatype of its origin, never as a plain
\* string literal or a reference.
C3_NumericIsTyped ==
  (call = "object_term" /\ float_ok(arg)) =>
    /\ ret.type = "Literal"
    /\ ret.datatype \in {XSD_integer, XSD_float}
    /\ arg.kind = "int" => ret.datatype = XSD_integer
    /\ arg.kind = "float" => ret.datatype = XSD_float

\* C4 as stated: an Object value whose lower-cased text contains a literal
\* indicator anywhere is emitted as a literal.
C4_AsStated ==
  (call = "object_term" /\ HasIndicator(arg.text)) => ret.type = "Literal"

\* C4 amended: the check for a leading "http" comes first; an Object value
\* whose lower-cased text contains a literal indicator anywhere and whose
\* trimmed text does not start with "http" is emitted as a literal.
C4_IndicatorIsLiteral ==
  ( /\ call = "object_term"
    /\ HasIndicator(arg.text)
    /\ ~startswith(strip(arg.text), <<"h", "t", "t", "p">>) )
  => ret.type = "Literal"
C4_Witness ==
  /\ call = "object_term" /\ arg = Str(<<"A", "d">>)
  /\ ret = Literal(<<"A", "d">>, NoDatatype)

\* every character of s is URI-safe
AllUriSafe(s) == \A i \in 1..Len(s) : s[i] \in UriSafeChars
\* C5: an Object value whose trimmed text starts with "http" (case-sensitive)
\* is classified as a reference whatever indicators it contains; unless it
\* starts with "http://" or "https://" the reference is minted under the
\* default namespace from the sanitized text.
C5_HttpIsReference ==
  (call = "object_term" /\ startswith(strip(arg.text), <<"h", "t", "t", "p">>)) =>
    /\ ret.type = "URIRef"
    /\ ~StartsWithUrlScheme(strip(arg.text)) =>
         /\ startswith(ret.value, EX)
         /\ AllUriSafe(Slice(ret.value, Len(EX) + 1, Len(ret.value)))
         /\ ret.value # strip(arg.text)
C5_Witness ==
  /\ call = "object_term" /\ arg = Str(<<"h", "t", "t", "p", "-", "a", "d">>)
  /\ ret = URIRef(EX \o <<"h", "t", "t", "p", "-", "a", "d">>)

\* C6 as stated: for text beginning with "http://" or "https://" create_uri
\* returns a reference whose identifier is exactly the input text.
C6_AsStated ==
  (call = "create_uri" /\ StartsWithUrlScheme(arg.text)) => ret = URIRef(arg.text)

\* t is s without its trailing whitespace
IsRightTrimOf(t, s) ==
  /\ Len(t) <= Len(s)
  /\ t = Slice(s, 1, Len(t))
  /\ \A i \in (Len(t) + 1)..Len(s) : s[i] \in Whitespace
  /\ t # <<>> => t[Len(t)] \notin Whitespace
\* C6 amended: for text beginning with "http://" or "https://" create_uri
\* returns a reference whose identifier is the input text with trailing
\* whitespace trimmed and otherwise unchanged and unsanitized.
C6_UrlPassesThrough ==
  (call = "create_uri" /\ StartsWithUrlScheme(arg.text)) =>
    /\ ret.type = "URIRef"
    /\ IsRightTrimOf(ret.value, arg.text)
C6_Witness ==
  /\ call = "create_uri"
  /\ arg = Str(<<"h", "t", "t", "p", ":", "/", "/", "a", ".", "b", "/", "c", " ">>)
  /\ ret = URIRef(<<"h", "t", "t", "p", ":", "/", "/", "a", ".", "b", "/", "c">>)

\* the sanitization in one pass, with the characters in ws replaced by "_"
RECURSIVE Sanitized(_, _)
Sanitized(s, ws) ==
  IF s = <<>> THEN <<>>
  ELSE LET c == Head(s)
           out == IF c \in {"(", ")", ","} THEN <<>>
                  ELSE IF c \in ws THEN <<"_">>
                  ELSE IF c \in UriSafeChars THEN <<c>>
                  ELSE <<>>
       IN  out \o Sanitized(Tail(s), ws)
\* C7 as stated: for text not beginning with "http://" or "https://"
\* create_uri returns the default namespace followed by the text with
\* parentheses and commas removed, every internal whitespace character
\* replaced by "_" and every other character outside the URI-safe set
\* removed; the local name is URI-safe and sanitizing it again changes nothing.
C7_AsStated ==
  (call = "create_uri" /\ ~StartsWithUrlScheme(arg.text)) =>
    /\ ret = URIRef(EX \o Sanitized(strip(arg.text), Whitespace))
    /\ AllUriSafe(Slice(ret.value, Len(EX) + 1, Len(ret.value)))

\* C7 amended: for text whose trimmed form does not begin with "http://" or
\* "https://" create_uri returns the default namespace followed by the
\* trimmed text with parentheses and commas removed, every space replaced by
\* "_" and every other character outside the URI-safe set removed (a tab is
\* removed, not replaced); the local name is URI-safe and sanitizing it
\* again changes nothing.
C7_MintedLocalName ==
  (call = "create_uri" /\ ~StartsWithUrlScheme(strip(arg.text))) =>
    LET local == Slice(ret.value, Len(EX) + 1, Len(ret.value))
    IN  /\ ret = URIRef(EX \o Sanitized(strip(arg.text), {" "}))
        /\ AllUriSafe(local)
        /\ Sanitized(local, {" "}) = local
C7_Witness ==
  /\ call = "create_uri" /\ arg = Str(<<"A", " ", "a">>)
  /\ ret = URIRef(EX \o <<"A", "_", "a">>)

\* the trimmed property string, its first colon, prefix and local name
PropText == strip(arg.text)
PropPrefix == Slice(PropText, 1, FirstColon(PropText) - 1)
PropLocal == Slice(PropText, FirstColon(PropText) + 1, Len(PropText))
HasColon(s) == \E i \in 1..Len(s) : s[i] = ":"
KnownPrefixes ==
  { <<"r", "d", "f">>, <<"r", "d", "f", "s">>,
    <<"d", "c", "t", "e", "r", "m", "s">>, <<"d", "c">>, <<"f", "o", "a", "f">>,
    <<"s", "c", "h", "e", "m", "a">>, <<"e", "d", "m">>, <<"c", "r", "m">>,
    <<"o", "w", "l">>, <<"e", "x">> }

\* C8 as stated: for a property string with a colon whose part before the
\* first colon is a Namespace Table prefix (case-insensitively)
\* parse_property returns that namespace's base followed by everything after
\* the first colon, unmodified.
C8_KnownPrefix ==
  ( /\ call = "parse_property"
    /\ HasColon(PropText)
    /\ lower(PropPrefix) \in KnownPrefixes )
  => ret = URIRef(namespace_map[lower(PropPrefix)].base \o PropLocal)

\* C9: for a property string whose prefix is not in the Namespace Table
\* parse_property returns the default namespace followed by the whole trimmed
\* string with every colon replaced by "_"; without a colon it returns the
\* default namespace followed by the trimmed string unmodified; either way
\* the result lies in the default namespace.
C9_DefaultNamespace ==
  ( /\ call = "parse_property"
    /\ ~(HasColon(PropText) /\ lower(PropPrefix) \in KnownPrefixes) )
  => LET local == Slice(ret.value, Len(EX) + 1, Len(ret.value))
     IN  /\ ret.type = "URIRef"
         /\ startswith(ret.value, EX)
         /\ Len(local) = Len(PropText)
         /\ \A i \in 1..Len(local) :
              local[i] = IF PropText[i] = ":" THEN "_" ELSE PropText[i]
         /\ arg = Str(UnknownprefixFoo) =>
              local = <<"u", "n", "k", "n", "o", "w", "n", "p", "r", "e", "f",
                        "i", "x", "_", "f", "o", "o">>
C9_Witness ==
  /\ call = "parse_property" /\ arg = Str(UnknownprefixFoo)
  /\ ret.type = "URIRef"

\* C10: a source lacking one of the columns Subject, Property, Object adds
\* nothing to the graph or the running total, none of its rows is processed,
\* nothing is raised, and the builder goes on to the next source.
C10_MissingColumnsSkipped ==
  /\ [](pc = "rows" => RequiredColumns \subseteq df.columns)
  /\ [][ (pc = "verify" /\ ~(RequiredColumns \subseteq df.columns)) =>
           /\ g' = g
           /\ total_triples' = total_triples
           /\ status'[fidx] = "columns_invalid"
           /\ fidx' = fidx + 1
           /\ pc' = "for_file" ]_vars
C10_Witness ==
  /\ fidx = 2 /\ status[1] = "columns_invalid"
  /\ pc = "rows" /\ ridx > 1 /\ g # {}

\* the states in which a source stays
Terminal == {"rows_processed", "columns_invalid", "unreadable"}
AllTerminal == \A i \in 1..nfiles : status[i] \in Terminal

\* C11: a row whose conversion fails adds no triple and is not counted, the
\* loop goes on to the next row of the same source and earlier triples stay
\* in the graph; a source that fails to load changes nothing and the loop
\* goes on to the next source, so every source is attempted.
C11_FailureIsolation ==
  /\ [][ (pc = "rows" /\ ridx <= Len(df.rows)) =>
           /\ ridx' = ridx + 1 /\ pc' = "rows" /\ df' = df /\ fidx' = fidx
           /\ g \subseteq g'
           /\ added' = added => (g' = g /\ file_triples' = file_triples)
           /\ added' # added => file_triples' = file_triples + 1 ]_vars
  /\ [][ (pc = "for_file" /\ fidx <= nfiles /\ status'[fidx] = "unreadable") =>
           /\ fidx' = fidx + 1 /\ pc' = "for_file"
           /\ g' = g /\ total_triples' = total_triples ]_vars
  /\ [](pc \in {"export_rdf_xml", "done", "aborted"} => AllTerminal)
C11_Witness ==
  /\ pc = "rows" /\ fidx = 1 /\ ridx = 3 /\ Len(df.rows) = 2
  /\ df.rows[1].Property = Str(ExHeight) /\ df.rows[2].Property = Str(RdfFoo)
  /\ file_triples = 1 /\ Cardinality(g) = 1

\* C12 as stated: a failed serialization is reported for its format only
\* and never aborts the run: after a failed RDF/XML export the Turtle output
\* stands, and after a failed Turtle serialization the RDF/XML export is
\* still attempted.
C12_SinkFailureIsolated ==
  /\ rdfxml = "failed" => (turtle = "saved" /\ pc = "done")
  /\ turtle = "failed" => pc \in {"export_rdf_xml", "done"}
  /\ pc # "aborted"

\* C13: sources are processed one after the other in list order, each is
\* attempted once and ends in exactly one terminal state, rows are processed
\* only for the current source after the earlier ones are terminal, and a
\* terminal state is never left.
C13_SourceStateMachine ==
  /\ [](\A i \in 1..nfiles :
          /\ i < fidx => status[i] \in Terminal
          /\ i = fidx => status[i] \notin Terminal
          /\ i > fidx => status[i] = "not_started")
  /\ [](pc = "rows" => (fidx <= nfiles /\ status[fidx] = "columns_valid"))
  /\ [][ \A i \in 1..nfiles :
           /\ status[i] \in Terminal => status'[i] = status[i]
           /\ status'[i] # status[i] =>
                /\ i = fidx
                /\ <<status[i], status'[i]>> \in
                     { <<"not_started", "loaded">>, <<"not_started", "unreadable">>,
                       <<"loaded", "columns_valid">>, <<"loaded", "columns_invalid">>,
                       <<"columns_valid", "rows_processed">> } ]_vars
C13_Witness ==
  /\ nfiles = 2 /\ pc = "done"
  /\ status = <<"unreadable", "rows_processed">> /\ g # {}

\* no source was loaded and validated
AllSkipped == \A i \in 1..nfiles : status[i] \in {"unreadable", "columns_invalid"}
\* the steps one source can take: load, verify, one per row, finish
SourceSteps == MaxRows + 3
\* an upper bound on the steps left before the Turtle serialization has been
\* attempted
StepsLeft ==
  IF turtle # "none" THEN 0
  ELSE LET later == IF fidx <= nfiles THEN (nfiles - fidx) * SourceSteps ELSE 0
           current == CASE fidx > nfiles -> 0
                        [] pc = "for_file" -> SourceSteps
                        [] pc = "verify" -> SourceSteps - 1
                        [] pc = "rows" -> (Len(df.rows) - ridx + 1) + 1
                        [] OTHER -> 0
       IN  1 + later + current
\* C14: whichever sources fail to load or validate, the run goes on: before
\* the Turtle serialization is attempted the run is never stuck and every
\* step brings the attempt nearer, the attempt is made once, after the last
\* source is terminal, and when no source was loaded the graph is empty and
\* the total is 0.
C14_RunCompletes ==
  /\ []((pc = "for_file" /\ fidx <= nfiles) => (ENABLED ReadCsv /\ ENABLED ReadFails))
  /\ [](pc = "verify" => ENABLED VerifyColumns)
  /\ []((pc = "rows" /\ ridx <= Len(df.rows)) => row_outcomes(df.rows[ridx]) # {})
  /\ []((pc = "rows" /\ ridx > Len(df.rows)) => ENABLED FinishSource)
  /\ []((pc = "for_file" /\ fidx > nfiles) => ENABLED SerializeTurtle)
  /\ [](turtle = "none" => pc \in {"for_file", "verify", "rows"})
  /\ [][turtle = "none" => StepsLeft' < StepsLeft]_vars
  /\ [](turtle # "none" => (fidx = nfiles + 1 /\ AllTerminal))
  /\ [][turtle # "none" => turtle' = turtle]_vars
  /\ []((turtle # "none" /\ AllSkipped) => (g = {} /\ total_triples = 0))
C14_Witness ==
  /\ nfiles = 2 /\ AllSkipped /\ turtle = "saved" /\ g = {} /\ total_triples = 0

\* the part of an identifier after its last "/" or "#"
LocalName(id) ==
  LET seps == {i \in 1..Len(id) : id[i] \in {"/", "#"}}
  IN  IF seps = {} THEN id
      ELSE Slice(id, (CHOOSE i \in seps : \A j \in seps : j <= i) + 1, Len(id))
\* a non-empty identifier with a non-empty local name and URI-safe characters
ValidReference(u) ==
  /\ u.type = "URIRef"
  /\ LocalName(u.value) # <<>>
  /\ \A i \in 1..Len(u.value) : u.value[i] \in UriSafeChars \cup {":", "/", "#"}
CellTexts ==
  {r[c].text : r \in TextRows \cup IntRows \cup FloatRows, c \in {"Subject", "Object"}}
\* minted under the default namespace from a URI-safe, possibly empty, local
\* name, or the trimmed http(s) text of a cell passed through as it is
MintedOrPassedThrough(u) ==
  /\ u.type = "URIRef"
  /\ \/ /\ startswith(u.value, EX)
        /\ AllUriSafe(Slice(u.value, Len(EX) + 1, Len(u.value)))
     \/ /\ StartsWithUrlScheme(u.value)
        /\ \E text \in CellTexts : IsRightTrimOf(u.value, text)
C16_AsStated ==
  /\ total_triples = added
  /\ total_triples >= Cardinality(g)

\* C16 amended: the running total is brought up to date at the end of each
\* source: outside the row loop it equals the number of rows handed to the
\* graph and is at least the number of distinct triples; inside the row loop
\* that holds of the total plus the current source's count.  The total never
\* decreases, no triple is ever removed, and each row handed to the graph
\* adds one new triple or a triple that is already there, so the total
\* equals the number of triples exactly when no row repeated a triple.
C16_TotalCountsHandedRows ==
  /\ [](pc # "rows" => (total_triples = added /\ total_triples >= Cardinality(g)))
  /\ [](pc = "rows" => ( /\ total_triples + file_triples = added
                         /\ added >= Cardinality(g) ))
  /\ [][ /\ total_triples' >= total_triples
         /\ g \subseteq g'
         /\ added' # added =>
              /\ added' = added + 1
              /\ \/ g' = g
                 \/ Cardinality(g') = Cardinality(g) + 1 ]_vars
C16_Witness ==
  /\ pc = "done" /\ total_triples = 3 /\ Cardinality(g) = 2

\* the triples of one place about its coordinates
Latitudes(uri) == {t \in tei_g : t.s = uri /\ t.p = term(SCHEMA, "latitude")}
Longitudes(uri) == {t \in tei_g : t.s = uri /\ t.p = term(SCHEMA, "longitude")}
PlaceUris == {URIRef(base_uri \o id) : id \in Ids}

C18_GeoAllOrNothing ==
  \A uri \in PlaceUris : (Latitudes(uri) = {}) <=> (Longitudes(uri) = {})

====
